---- MODULE Spec2Model ----
(***************************************************************************)
(* Action orchestration pipeline of the Avalanche yield orchestrator:      *)
(* the safety engine (src/utils/helpers.ts) and the buildAction /          *)
(* sendAction handlers of the five protocol connectors (Trader Joe,        *)
(* Pangolin, Benqi, Aave, Yield Yak).                                      *)
(*                                                                         *)
(* USD amounts are whole units, slippage is in basis points, health        *)
(* factors are fixed point with HFScale units per 1.0.                     *)
(***************************************************************************)
EXTENDS Integers, Sequences, FiniteSets, TLC

----------------------------------------------------------------------------
(* Bounds of the model *)

MaxAmountUsd == 1       \* action.amountUsd ranges over 0..MaxAmountUsd
MaxSlippage == 1        \* action.slippageBps ranges over 0..MaxSlippage
MaxLimit == 1           \* configured USD limits range over 0..MaxLimit
MaxUsage == 2           \* dailyUsage argument of the engine ranges over 0..MaxUsage
MaxPositionUsd == 1     \* wallet collateral / debt range over 0..MaxPositionUsd
MaxGas == 2             \* provider.estimateGas answers 1..MaxGas
MaxItems == 2           \* entries one connector returns to the aggregator
MaxApr == 1             \* opportunity rates range over -1..MaxApr

(* Program constants *)

HFScale == 100          \* fixed-point scale of a health factor
MinHealthFactor == 130  \* minHealthFactor 1.3
HFNoBorrow == 99900     \* calculateHealthFactor's 999 for a wallet without borrows
DocMaxNotionalPerTx == 250
DocDailyCap == 1000
DocMaxSlippageBps == 500
DocDefaultSlippageBps == 50

----------------------------------------------------------------------------
(* Data model (src/types/index.ts) *)

\* The connector classes.  connectors/yieldyak.ts holds two definitions of
\* YieldYakConnector: "yieldyak.first" is the first one, "yieldyak" the second.
Adapters ==
  {"traderjoe", "pangolin", "benqi", "aave", "yieldyak", "yieldyak.first"}

ActionTypes ==
  {"swap", "lp_add", "lp_remove", "supply", "withdraw", "borrow", "repay",
   "deposit", "withdraw_vault"}

\* The token amounts (bigint, smallest units) of the planned actions.
DefaultAmount == 10000

TokenAmounts == {0, 1, 3, 9999, DefaultAmount, 20001}

\* PlanAction, restricted to the fields the pipeline reads.  tokenKnown says
\* whether the action's token resolves to a contract of the adapter.
PlanAction ==
  [type : ActionTypes, amount : TokenAmounts, amountUsd : 0..MaxAmountUsd,
   slippageBps : 0..MaxSlippage, tokenKnown : BOOLEAN]

\* ProtocolConfig: the per-protocol limits of config/protocols.json.
ProtocolConfig ==
  [maxNotionalPerTx : 0..MaxLimit, dailyCap : 0..MaxLimit,
   defaultSlippageBps : 0..MaxSlippage, maxSlippageBps : 0..MaxSlippage,
   minHealthFactor : {MinHealthFactor}]

\* The limits of the deployment guide.
DocConfig ==
  [maxNotionalPerTx |-> DocMaxNotionalPerTx, dailyCap |-> DocDailyCap,
   defaultSlippageBps |-> DocDefaultSlippageBps,
   maxSlippageBps |-> DocMaxSlippageBps, minHealthFactor |-> MinHealthFactor]

NoReason == [text |-> "", value |-> 0, limit |-> 0]

----------------------------------------------------------------------------
(* Safety engine *)

performSafetyChecks_NotionalIgnored(action, config, dailyUsage) ==
  LET notionalCheck == TRUE
      dailyCapCheck == (dailyUsage + action.amountUsd) <= config.dailyCap
      slippageCheck == action.slippageBps <= config.maxSlippageBps
      passed == notionalCheck /\ dailyCapCheck /\ slippageCheck
      reason ==
        IF ~dailyCapCheck
          THEN [text |-> "exceeds daily cap",
                value |-> dailyUsage + action.amountUsd,
                limit |-> config.dailyCap]
        ELSE IF ~slippageCheck
          THEN [text |-> "exceeds max slippage",
                value |-> action.slippageBps, limit |-> config.maxSlippageBps]
        ELSE NoReason
  IN [passed |-> passed, reason |-> reason, notionalCheck |-> notionalCheck,
      dailyCapCheck |-> dailyCapCheck, slippageCheck |-> slippageCheck]

performSafetyChecks_StrictBounds(action, config, dailyUsage) ==
  LET notionalCheck == action.amountUsd < config.maxNotionalPerTx
      dailyCapCheck == (dailyUsage + action.amountUsd) < config.dailyCap
      slippageCheck == action.slippageBps < config.maxSlippageBps
      passed == notionalCheck /\ dailyCapCheck /\ slippageCheck
      reason ==
        IF ~notionalCheck
          THEN [text |-> "exceeds max notional per tx",
                value |-> action.amountUsd, limit |-> config.maxNotionalPerTx]
        ELSE IF ~dailyCapCheck
          THEN [text |-> "exceeds daily cap",
                value |-> dailyUsage + action.amountUsd,
                limit |-> config.dailyCap]
        ELSE IF ~slippageCheck
          THEN [text |-> "exceeds max slippage",
                value |-> action.slippageBps, limit |-> config.maxSlippageBps]
        ELSE NoReason
  IN [passed |-> passed, reason |-> reason, notionalCheck |-> notionalCheck,
      dailyCapCheck |-> dailyCapCheck, slippageCheck |-> slippageCheck]

performSafetyChecks_ShortCircuit(action, config, dailyUsage) ==
  LET notionalCheck == action.amountUsd <= config.maxNotionalPerTx
      dailyCapCheck == notionalCheck /\ (dailyUsage + action.amountUsd) <= config.dailyCap
      slippageCheck == dailyCapCheck /\ action.slippageBps <= config.maxSlippageBps
      passed == notionalCheck /\ dailyCapCheck /\ slippageCheck
      reason ==
        IF ~notionalCheck
          THEN [text |-> "exceeds max notional per tx",
                value |-> action.amountUsd, limit |-> config.maxNotionalPerTx]
        ELSE IF ~dailyCapCheck
          THEN [text |-> "exceeds daily cap",
                value |-> dailyUsage + action.amountUsd,
                limit |-> config.dailyCap]
        ELSE IF ~slippageCheck
          THEN [text |-> "exceeds max slippage",
                value |-> action.slippageBps, limit |-> config.maxSlippageBps]
        ELSE NoReason
  IN [passed |-> passed, reason |-> reason, notionalCheck |-> notionalCheck,
      dailyCapCheck |-> dailyCapCheck, slippageCheck |-> slippageCheck]

performSafetyChecks_PassedIgnoresSlippage(action, config, dailyUsage) ==
  LET notionalCheck == action.amountUsd <= config.maxNotionalPerTx
      dailyCapCheck == (dailyUsage + action.amountUsd) <= config.dailyCap
      slippageCheck == action.slippageBps <= config.maxSlippageBps
      passed == notionalCheck /\ dailyCapCheck
      reason ==
        IF ~notionalCheck
          THEN [text |-> "exceeds max notional per tx",
                value |-> action.amountUsd, limit |-> config.maxNotionalPerTx]
        ELSE IF ~dailyCapCheck
          THEN [text |-> "exceeds daily cap",
                value |-> dailyUsage + action.amountUsd,
                limit |-> config.dailyCap]
        ELSE IF ~slippageCheck
          THEN [text |-> "exceeds max slippage",
                value |-> action.slippageBps, limit |-> config.maxSlippageBps]
        ELSE NoReason
  IN [passed |-> passed, reason |-> reason, notionalCheck |-> notionalCheck,
      dailyCapCheck |-> dailyCapCheck, slippageCheck |-> slippageCheck]

\* helpers.ts performSafetyChecks: three independent predicates, the reason
\* names the first violated one (notional, daily cap, slippage).
performSafetyChecks(action, config, dailyUsage) ==
  LET notionalCheck == action.amountUsd <= config.maxNotionalPerTx
      dailyCapCheck == (dailyUsage + action.amountUsd) <= config.dailyCap
      slippageCheck == action.slippageBps <= config.maxSlippageBps
      passed == notionalCheck /\ dailyCapCheck /\ slippageCheck
      reason ==
        IF ~notionalCheck
          THEN [text |-> "exceeds max notional per tx",
                value |-> action.amountUsd, limit |-> config.maxNotionalPerTx]
        ELSE IF ~dailyCapCheck
          THEN [text |-> "exceeds daily cap",
                value |-> dailyUsage + action.amountUsd,
                limit |-> config.dailyCap]
        ELSE IF ~slippageCheck
          THEN [text |-> "exceeds max slippage",
                value |-> action.slippageBps, limit |-> config.maxSlippageBps]
        ELSE NoReason
  IN [passed |-> passed, reason |-> reason, notionalCheck |-> notionalCheck,
      dailyCapCheck |-> dailyCapCheck, slippageCheck |-> slippageCheck]

----------------------------------------------------------------------------
(* Connectors *)

\* The action kinds each connector's buildAction switch handles.
SupportedTypes(a) ==
  CASE a \in {"traderjoe", "pangolin"} -> {"swap", "lp_add", "lp_remove"}
    [] a \in {"benqi", "aave"} -> {"supply", "withdraw", "borrow", "repay"}
    [] OTHER -> {"deposit", "withdraw_vault"}

Markets == {"qiAVAX", "qiUSDC"}

\* What the chain answers during one buildAction call: the wallet's lending
\* position per market, which market reads succeed, whether the pool read
\* and the vault price read succeed, whether the dry run reverts, and the
\* gas estimate (0: estimation fails).
BuildEnv ==
  [pos : [Markets -> [supply : 0..MaxPositionUsd, borrow : 0..MaxPositionUsd]],
   readOk : SUBSET Markets, poolOk : BOOLEAN, priceOk : BOOLEAN,
   dryOk : BOOLEAN, gas : 0..MaxGas]

RECURSIVE SumOver(_, _, _)
SumOver(pos, field, ms) ==
  IF ms = {} THEN 0
  ELSE LET m == CHOOSE x \in ms : TRUE
       IN pos[m][field] + SumOver(pos, field, ms \ {m})

\* The wallet's whole position (ghost: what the chain really holds).
Wallet(env) ==
  [collateral |-> SumOver(env.pos, "supply", Markets),
   debt |-> SumOver(env.pos, "borrow", Markets)]

\* BenqiConnector.calculateHealthFactor: sums the markets whose reads
\* succeed, skips the others, 999 when the summed borrow is 0.
calculateHealthFactor(env) ==
  LET totalSupply == SumOver(env.pos, "supply", env.readOk)
      totalBorrow == SumOver(env.pos, "borrow", env.readOk)
  IN IF totalBorrow = 0 THEN HFNoBorrow
     ELSE (totalSupply * HFScale) \div totalBorrow

\* Aave's pool.getUserAccountData(wallet).healthFactor / 1e18: collateral
\* over debt, the maximal value for a wallet without debt.
aaveHealthFactor(env) ==
  LET w == Wallet(env)
  IN IF w.debt = 0 THEN HFNoBorrow
     ELSE (w.collateral * HFScale) \div w.debt

\* The wallet's collateralization ratio on its whole position.
RatioNow(env) ==
  LET w == Wallet(env)
  IN IF w.debt = 0 THEN HFNoBorrow ELSE (w.collateral * HFScale) \div w.debt

\* The collateralization ratio the wallet would have after the action.
RatioAfter(action, env) ==
  LET w == Wallet(env)
      debt == IF action.type = "borrow" THEN w.debt + action.amountUsd
              ELSE w.debt
  IN IF debt = 0 THEN HFNoBorrow ELSE (w.collateral * HFScale) \div debt

NoTx ==
  [to |-> "", fn |-> "", amountUsd |-> 0, slippageBps |-> 0, amount |-> 0,
   minAmount |-> 0, deadline |-> 0, gasLimit |-> 0]

\* A thrown Error: the wrapper text of the handler's catch block, the text
\* of the wrapped error, the safety / health reason it interpolates and the
\* action kind it names.
NoError == [wrapper |-> "", cause |-> "", reason |-> NoReason, kind |-> ""]

Err(wrapper, cause, reason) ==
  [wrapper |-> wrapper, cause |-> cause, reason |-> reason, kind |-> ""]

HFReason(hf, min) == [text |-> "below minimum", value |-> hf, limit |-> min]

\* The health-factor gate of the lending connectors for borrow / repay.
\* Result: "skip" (not a lending borrow/repay), "pass", "block", "throw".
benqiGate(action, config, env) ==
  IF action.type \notin {"borrow", "repay"} THEN "skip"
  ELSE IF calculateHealthFactor(env) < config.minHealthFactor THEN "block"
  ELSE "pass"

aaveGate(action, config, env) ==
  IF action.type \notin {"borrow", "repay"} THEN "skip"
  ELSE IF ~env.poolOk THEN "throw"
  ELSE IF aaveHealthFactor(env) < config.minHealthFactor
          /\ aaveHealthFactor(env) # 0 THEN "block"
  ELSE "pass"

healthGate(a, action, config, env) ==
  CASE a = "benqi" -> benqiGate(action, config, env)
    [] a = "aave" -> aaveGate(action, config, env)
    [] OTHER -> "skip"

healthFactorSeen(a, env) ==
  IF a = "benqi" THEN calculateHealthFactor(env) ELSE aaveHealthFactor(env)

gateCall(a) ==
  IF a = "benqi" THEN "calculateHealthFactor" ELSE "pool.getUserAccountData"

\* build*Tx of the connector: the target contract, or "" when the encode
\* step throws.  getVaultForToken of the first YieldYakConnector compares
\* the promise vaultContract.token() with the address and so finds no vault.
encodeTarget(a, action, env) ==
  CASE a = "traderjoe" -> "traderjoe.router"
    [] a = "pangolin" -> "pangolin.router"
    [] a = "aave" -> "aave.pool"
    [] a = "benqi" -> IF action.tokenKnown THEN "benqi.qToken" ELSE ""
    [] a = "yieldyak.first" -> ""
    [] OTHER ->
         IF action.type = "withdraw_vault" /\ ~env.priceOk THEN ""
         ELSE IF action.tokenKnown THEN "yieldyak.vault"
         ELSE "yieldyak.firstVault"

encodeError(a, action, env) ==
  CASE a = "benqi" -> "No qToken found for token"
    [] a = "yieldyak.first" -> "No vault found for token"
    [] OTHER -> "pricePerShare read failed"

BuildWrapper(a) ==
  CASE a = "traderjoe" -> "Failed to build Trader Joe action"
    [] a = "pangolin" -> "Failed to build Pangolin action"
    [] a = "benqi" -> "Failed to build Benqi action"
    [] a = "aave" -> "Failed to build Aave action"
    [] OTHER -> "Failed to build Yield Yak action"

SendWrapper(a) ==
  CASE a = "traderjoe" -> "Failed to send Trader Joe action"
    [] a = "pangolin" -> "Failed to send Pangolin action"
    [] a = "benqi" -> "Failed to send Benqi action"
    [] a = "aave" -> "Failed to send Aave action"
    [] OTHER -> "Failed to send Yield Yak action"

NoBuild ==
  [ok |-> FALSE, error |-> NoError, tx |-> NoTx, dryRun |-> "none",
   calls |-> <<>>]

----------------------------------------------------------------------------
(* Transaction encoding *)

VARIABLE now     \* Date.now(): the wall clock of the process, in milliseconds

MaxClockMs == 1000
ClockStepMs == 500

\* defaultDeadlineMinutes of config/protocols.json.
defaultDeadlineMinutes == 20

\* helpers.ts getCurrentTimestamp: Math.floor(Date.now() / 1000)
getCurrentTimestamp == now \div 1000

\* helpers.ts calculateDeadline
calculateDeadline(minutesFromNow) == getCurrentTimestamp + (minutesFromNow * 60)

calculateMinAmountOut_RoundedUp(amountIn, slippageBps) ==
  (amountIn * (10000 - slippageBps) + 9999) \div 10000

\* helpers.ts calculateMinAmountOut: bigint arithmetic, the division
\* truncates.
calculateMinAmountOut(amountIn, slippageBps) ==
  LET slippageMultiplier == 10000 - slippageBps
  IN (amountIn * slippageMultiplier) \div 10000

\* build*Tx of the connector once the target is resolved: the request whose
\* data encodes the function, the amount and, for the DEX routers, the
\* minimum amount(s) and the deadline.  amountUsd and slippageBps record the
\* action the request was encoded from; gasLimit is not set yet.  A vault
\* withdrawal encodes the shares, which are the amount at a price per share
\* of 1.
encodeTx(a, action, env) ==
  LET dex == a \in {"traderjoe", "pangolin"}
  IN [to |-> encodeTarget(a, action, env), fn |-> action.type,
      amountUsd |-> action.amountUsd, slippageBps |-> action.slippageBps,
      amount |-> action.amount,
      minAmount |-> IF dex
                      THEN calculateMinAmountOut(action.amount,
                                                 action.slippageBps)
                    ELSE 0,
      deadline |-> IF dex THEN calculateDeadline(defaultDeadlineMinutes)
                   ELSE 0,
      gasLimit |-> 0]

----------------------------------------------------------------------------
(* buildAction *)

dryRunTx_AlwaysSuccess(env) == "success"

dryRunTx_AlwaysReverted(env) == "reverted"

\* helpers.ts dryRunTx: provider.call, a revert is caught and reported.
dryRunTx(env) == IF env.dryOk THEN "success" ELSE "reverted"

buildTail_SilentNoOp(a, action, env, calls) ==
  IF encodeTarget(a, action, env) = ""
    THEN [NoBuild EXCEPT
            !.error = Err(BuildWrapper(a), encodeError(a, action, env), NoReason),
            !.calls = calls \o <<"encode">>]
  ELSE IF env.gas = 0
    THEN [NoBuild EXCEPT
            !.error = Err(BuildWrapper(a), "Gas estimation failed", NoReason),
            !.calls = calls \o <<"encode", "provider.call", "provider.estimateGas">>]
  ELSE [ok |-> TRUE, error |-> NoError,
        tx |-> [encodeTx(a, action, env) EXCEPT !.gasLimit = env.gas],
        dryRun |-> dryRunTx(env),
        calls |-> calls \o <<"encode", "provider.call", "provider.estimateGas">>]

buildTail_EstimateBeforeDryRun(a, action, env, calls) ==
  IF action.type \notin SupportedTypes(a)
    THEN [NoBuild EXCEPT
            !.error = [Err(BuildWrapper(a), "Unsupported action type", NoReason)
                         EXCEPT !.kind = action.type],
            !.calls = calls]
  ELSE IF encodeTarget(a, action, env) = ""
    THEN [NoBuild EXCEPT
            !.error = Err(BuildWrapper(a), encodeError(a, action, env), NoReason),
            !.calls = calls \o <<"encode">>]
  ELSE IF env.gas = 0
    THEN [NoBuild EXCEPT
            !.error = Err(BuildWrapper(a), "Gas estimation failed", NoReason),
            !.calls = calls \o <<"encode", "provider.estimateGas", "provider.call">>]
  ELSE [ok |-> TRUE, error |-> NoError,
        tx |-> [encodeTx(a, action, env) EXCEPT !.gasLimit = env.gas],
        dryRun |-> dryRunTx(env),
        calls |-> calls \o <<"encode", "provider.estimateGas", "provider.call">>]

buildTail_GasLimitUnset(a, action, env, calls) ==
  IF action.type \notin SupportedTypes(a)
    THEN [NoBuild EXCEPT
            !.error = [Err(BuildWrapper(a), "Unsupported action type", NoReason)
                         EXCEPT !.kind = action.type],
            !.calls = calls]
  ELSE IF encodeTarget(a, action, env) = ""
    THEN [NoBuild EXCEPT
            !.error = Err(BuildWrapper(a), encodeError(a, action, env), NoReason),
            !.calls = calls \o <<"encode">>]
  ELSE IF env.gas = 0
    THEN [NoBuild EXCEPT
            !.error = Err(BuildWrapper(a), "Gas estimation failed", NoReason),
            !.calls = calls \o <<"encode", "provider.call", "provider.estimateGas">>]
  ELSE [ok |-> TRUE, error |-> NoError,
        tx |-> encodeTx(a, action, env),
        dryRun |-> dryRunTx(env),
        calls |-> calls \o <<"encode", "provider.call", "provider.estimateGas">>]

\* The steps of buildAction after the safety check and the health gate:
\* switch on the action type, encode, dry run, gas estimate.
buildTail(a, action, env, calls) ==
  IF action.type \notin SupportedTypes(a)
    THEN [NoBuild EXCEPT
            !.error = [Err(BuildWrapper(a), "Unsupported action type", NoReason)
                         EXCEPT !.kind = action.type],
            !.calls = calls]
  ELSE IF encodeTarget(a, action, env) = ""
    THEN [NoBuild EXCEPT
            !.error = Err(BuildWrapper(a), encodeError(a, action, env), NoReason),
            !.calls = calls \o <<"encode">>]
  ELSE IF env.gas = 0
    THEN [NoBuild EXCEPT
            !.error = Err(BuildWrapper(a), "Gas estimation failed", NoReason),
            !.calls = calls \o <<"encode", "provider.call", "provider.estimateGas">>]
  ELSE [ok |-> TRUE, error |-> NoError,
        tx |-> [encodeTx(a, action, env) EXCEPT !.gasLimit = env.gas],
        dryRun |-> dryRunTx(env),
        calls |-> calls \o <<"encode", "provider.call", "provider.estimateGas">>]

buildOutcome_NoSafetyCheck(a, config, action, env) ==
  buildTail(a, action, env, <<"performSafetyChecks">>)

\* buildAction of a connector: safety check with a daily usage of 0, health
\* gate (lending, borrow / repay), then buildTail.  Every failure is
\* rethrown inside the connector's "Failed to build ..." wrapper.
buildOutcome(a, config, action, env) ==
  LET safetyCheck == performSafetyChecks(action, config, 0)
      gate == healthGate(a, action, config, env)
      calls == IF gate = "skip" THEN <<"performSafetyChecks">>
               ELSE <<"performSafetyChecks", gateCall(a)>>
  IN IF ~safetyCheck.passed
       THEN [NoBuild EXCEPT
               !.error = Err(BuildWrapper(a), "Safety check failed",
                             safetyCheck.reason),
               !.calls = <<"performSafetyChecks">>]
     ELSE IF gate = "throw"
       THEN [NoBuild EXCEPT
               !.error = Err(BuildWrapper(a), "getUserAccountData failed",
                             NoReason),
               !.calls = calls]
     ELSE IF gate = "block"
       THEN [NoBuild EXCEPT
               !.error = Err(BuildWrapper(a), "Health factor below minimum",
                             HFReason(healthFactorSeen(a, env),
                                      config.minHealthFactor)),
               !.calls = calls]
     ELSE buildTail(a, action, env, calls)

----------------------------------------------------------------------------
(* sendAction *)

\* What the signer and the chain answer during one sendAction call: whether
\* signer.sendTransaction accepts the request and, if so, how tx.wait ends.
SendEnv ==
  [sendOk : {TRUE}, wait : {"confirmed", "null", "reverted"}]
    \cup {[sendOk |-> FALSE, wait |-> "none"]}

\* The placeholder action the final safety check of sendAction is run on.
finalCheckAction(a, config) ==
  [type |-> CASE a = "traderjoe" -> "swap"
              [] a = "benqi" -> "supply"
              [] OTHER -> "deposit",
   amount |-> 0,
   amountUsd |-> 0,
   slippageBps |-> IF a = "traderjoe" THEN config.defaultSlippageBps ELSE 0,
   tokenKnown |-> FALSE]

\* The connectors whose sendAction runs a final safety check.
hasFinalCheck(a) == a \in {"traderjoe", "benqi", "yieldyak", "yieldyak.first"}

\* The connectors whose sendAction throws when tx.wait yields no receipt; the
\* first YieldYakConnector returns whatever tx.wait yields.
checksReceipt(a) == a # "yieldyak.first"

NoSend ==
  [ok |-> FALSE, error |-> NoError, broadcast |-> FALSE, receipt |-> "none",
   calls |-> <<>>]

\* What the rejection of tx.wait interpolates when the mined receipt has
\* status 0: the receipt.
RevertReason == [text |-> "receipt status", value |-> 0, limit |-> 0]

sendTail_RevertSwallowed(a, env, calls) ==
  IF ~env.sendOk
    THEN [NoSend EXCEPT
            !.error = Err(SendWrapper(a), "sendTransaction failed", NoReason),
            !.calls = calls \o <<"signer.sendTransaction">>]
  ELSE IF env.wait = "null" /\ checksReceipt(a)
    THEN [NoSend EXCEPT
            !.error = Err(SendWrapper(a),
                          "Transaction failed - no receipt received", NoReason),
            !.broadcast = TRUE,
            !.calls = calls \o <<"signer.sendTransaction", "tx.wait">>]
  ELSE [ok |-> TRUE, error |-> NoError, broadcast |-> TRUE,
        receipt |-> env.wait,
        calls |-> calls \o <<"signer.sendTransaction", "tx.wait">>]

sendTail_RetryOnFailure(a, env, calls) ==
  IF ~env.sendOk
    THEN [NoSend EXCEPT
            !.error = Err(SendWrapper(a), "sendTransaction failed", NoReason),
            !.calls = calls \o <<"signer.sendTransaction",
                                 "signer.sendTransaction">>]
  ELSE IF env.wait = "reverted"
    THEN [NoSend EXCEPT
            !.error = Err(SendWrapper(a), "transaction execution reverted",
                          RevertReason),
            !.broadcast = TRUE,
            !.calls = calls \o <<"signer.sendTransaction", "tx.wait",
                                 "signer.sendTransaction", "tx.wait">>]
  ELSE IF env.wait = "null" /\ checksReceipt(a)
    THEN [NoSend EXCEPT
            !.error = Err(SendWrapper(a),
                          "Transaction failed - no receipt received", NoReason),
            !.broadcast = TRUE,
            !.calls = calls \o <<"signer.sendTransaction", "tx.wait">>]
  ELSE [ok |-> TRUE, error |-> NoError, broadcast |-> TRUE,
        receipt |-> env.wait,
        calls |-> calls \o <<"signer.sendTransaction", "tx.wait">>]

\* signer.sendTransaction followed by tx.wait.  tx.wait rejects when the
\* mined receipt's status is 0, and the catch block wraps the rejection's
\* text.
sendTail(a, env, calls) ==
  IF ~env.sendOk
    THEN [NoSend EXCEPT
            !.error = Err(SendWrapper(a), "sendTransaction failed", NoReason),
            !.calls = calls \o <<"signer.sendTransaction">>]
  ELSE IF env.wait = "reverted"
    THEN [NoSend EXCEPT
            !.error = Err(SendWrapper(a), "transaction execution reverted",
                          RevertReason),
            !.broadcast = TRUE,
            !.calls = calls \o <<"signer.sendTransaction", "tx.wait">>]
  ELSE IF env.wait = "null" /\ checksReceipt(a)
    THEN [NoSend EXCEPT
            !.error = Err(SendWrapper(a),
                          "Transaction failed - no receipt received", NoReason),
            !.broadcast = TRUE,
            !.calls = calls \o <<"signer.sendTransaction", "tx.wait">>]
  ELSE [ok |-> TRUE, error |-> NoError, broadcast |-> TRUE,
        receipt |-> env.wait,
        calls |-> calls \o <<"signer.sendTransaction", "tx.wait">>]

\* sendAction of a connector.  txRequest is not looked at before it is
\* handed to the signer.
sendOutcome(a, config, txRequest, env) ==
  IF hasFinalCheck(a)
    THEN LET safetyCheck ==
               performSafetyChecks(finalCheckAction(a, config), config, 0)
         IN IF ~safetyCheck.passed
              THEN [NoSend EXCEPT
                      !.error = Err(SendWrapper(a), "Final safety check failed",
                                    safetyCheck.reason),
                      !.calls = <<"performSafetyChecks">>]
            ELSE sendTail(a, env, <<"performSafetyChecks">>)
  ELSE sendTail(a, env, <<>>)

----------------------------------------------------------------------------
(* State *)

VARIABLES
  protocol,       \* the connector class of the instance under test
  config,         \* its ProtocolConfig, loaded once at module load
  executionMode,  \* EXECUTION_MODE of the process: "suggest" or "auto"
  chain,          \* what the chain answers to the reads of buildAction
  request,        \* a transaction request the caller holds
  signer,         \* what the signer and the chain answer to a held send
  op,             \* the handler called last: "init", "buildAction", "sendAction"
  action,         \* the PlanAction planned for / given to buildAction
  build,          \* outcome of the last buildAction call
  health,         \* at the last buildAction call: the health factor the
                  \* connector computed (current), the wallet's ratio on its
                  \* whole position before (ratio) and after the action
  builtTx,        \* the transaction buildAction returned and the caller has
                  \* not sent yet
  sent,           \* the request handed to the last sendAction call
  send,           \* outcome of the last sendAction call
  dailySpent,     \* sum of amountUsd of the built transactions confirmed today
  engine,         \* inputs and result of a direct safety-engine evaluation
  discovery,      \* chain answers to and result of a readOpportunities call
  previous        \* outcome of an earlier buildAction call the caller kept

vars ==
  <<protocol, config, executionMode, chain, request, signer, op, action,
    build, health, builtTx, sent, send, dailySpent, engine, discovery, now,
    previous>>

NoAction ==
  [type |-> "", amount |-> 0, amountUsd |-> 0, slippageBps |-> 0,
   tokenKnown |-> FALSE]

NoHealth == [gated |-> FALSE, current |-> 0, ratio |-> 0, after |-> 0]

NoSent == [amountUsd |-> 0, slippageBps |-> 0, built |-> FALSE, usage |-> 0]

NoCheck ==
  [passed |-> FALSE, reason |-> NoReason, notionalCheck |-> FALSE,
   dailyCapCheck |-> FALSE, slippageCheck |-> FALSE]

NoEngine ==
  [evaluated |-> FALSE, action |-> NoAction, config |-> DocConfig,
   dailyUsage |-> 0, check |-> NoCheck]

\* A chain on which the wallet holds no lending position and every read,
\* the dry run and the gas estimation succeed.
DefaultEnv ==
  [pos |-> [m \in Markets |-> [supply |-> 0, borrow |-> 0]],
   readOk |-> Markets, poolOk |-> TRUE, priceOk |-> TRUE, dryOk |-> TRUE,
   gas |-> 1]

LendingGated(a, act) ==
  a \in {"benqi", "aave"} /\ act.type \in {"borrow", "repay"}

\* The chain answers that a buildAction call of connector a on this action
\* can observe; what the call never reads is left at its default.
RelevantEnv(a, act) ==
  LET poss == IF LendingGated(a, act)
                THEN [Markets -> [supply : 0..MaxPositionUsd,
                                  borrow : 0..MaxPositionUsd]]
              ELSE {DefaultEnv.pos}
      reads == IF LendingGated(a, act) /\ a = "benqi" THEN SUBSET Markets
               ELSE {Markets}
      pools == IF LendingGated(a, act) /\ a = "aave" THEN BOOLEAN ELSE {TRUE}
      prices == IF a = "yieldyak" /\ act.type = "withdraw_vault" THEN BOOLEAN
                ELSE {TRUE}
      drys == IF act.type \in SupportedTypes(a) THEN BOOLEAN ELSE {TRUE}
      gases == IF act.type \in SupportedTypes(a) THEN 0..MaxGas ELSE {1}
  IN [pos : poss, readOk : reads, poolOk : pools, priceOk : prices,
      dryOk : drys, gas : gases]

\* The actions a caller can plan for connector a; the token only matters to
\* the connectors that resolve a contract from it, and the token amount,
\* which no check of buildAction reads, is the default one.
PlannedActions(a) ==
  {act \in PlanAction :
     /\ act.amount = DefaultAmount
     /\ a \notin {"benqi", "yieldyak"} => act.tokenKnown}

NoDiscovery == [reads |-> <<>>, done |-> FALSE, threw |-> FALSE, result |-> <<>>]

PipelineIdle ==
  /\ op = "init" /\ build = NoBuild /\ health = NoHealth
  /\ builtTx = NoTx /\ sent = NoSent /\ send = NoSend
  /\ dailySpent = 0
  /\ now = 0 /\ previous = NoBuild

DefaultSigner == [sendOk |-> TRUE, wait |-> "confirmed"]

\* The configurations of connector a; defaultSlippageBps, which only the
\* Trader Joe connector reads, is 0 for the others.
ConfigsOf(a) ==
  {c \in ProtocolConfig : a # "traderjoe" => c.defaultSlippageBps = 0}

\* A connector instance, its limits, the default execution mode, and a chain
\* that answers every call of buildAction.
Init ==
  /\ protocol \in Adapters
  /\ config \in ConfigsOf(protocol)
  /\ executionMode = "suggest"
  /\ chain = DefaultEnv
  /\ request = NoTx
  /\ signer = DefaultSigner
  /\ action = NoAction
  /\ PipelineIdle
  /\ engine = NoEngine
  /\ discovery = NoDiscovery

\* connector.buildAction(act, wallet) against the current chain.
buildAction(act) ==
  LET out == buildOutcome(protocol, config, act, chain)
  IN /\ op' = "buildAction"
     /\ action' = act
     /\ build' = out
     /\ health' = IF LendingGated(protocol, act)
                    THEN [gated |-> TRUE,
                          current |-> healthFactorSeen(protocol, chain),
                          ratio |-> RatioNow(chain),
                          after |-> RatioAfter(act, chain)]
                  ELSE NoHealth
     /\ builtTx' = out.tx
     /\ sent' = NoSent
     /\ send' = NoSend
     /\ UNCHANGED <<protocol, config, executionMode, chain, request, signer,
                    dailySpent, engine, discovery, now, previous>>

\* The caller plans any action and has it built.
callBuildAction == \E act \in PlannedActions(protocol) : buildAction(act)

\* A transaction request the caller made up without any buildAction call.
CallerTxs ==
  [to : {"caller.target"}, fn : {"raw"}, amountUsd : 0..MaxAmountUsd,
   slippageBps : 0..MaxSlippage, amount : {0}, minAmount : {0},
   deadline : {0}, gasLimit : {0}]

\* connector.sendAction(txRequest, signer); env is what the signer and the
\* chain answer.
sendAction(txRequest, env) ==
  LET out == sendOutcome(protocol, config, txRequest, env)
  IN /\ op' = "sendAction"
     /\ sent' = [amountUsd |-> txRequest.amountUsd,
                 slippageBps |-> txRequest.slippageBps,
                 built |-> (txRequest = builtTx), usage |-> dailySpent]
     /\ send' = out
     /\ dailySpent' = IF out.ok /\ txRequest = builtTx
                        THEN dailySpent + txRequest.amountUsd
                      ELSE dailySpent
     /\ action' = NoAction
     /\ build' = NoBuild
     /\ health' = NoHealth
     /\ builtTx' = NoTx
     /\ UNCHANGED <<protocol, config, executionMode, chain, request, signer,
                    engine, discovery, now, previous>>

\* The caller sends the built transaction or any other request.  A day is
\* followed until its confirmed spending has exceeded the daily cap.
callSendAction ==
  /\ dailySpent <= config.dailyCap
  /\ \E txRequest \in (CallerTxs \cup ({builtTx} \ {NoTx})) :
       \E env \in SendEnv : sendAction(txRequest, env)

Next == callBuildAction \/ callSendAction

Spec == Init /\ [][Next]_vars

----------------------------------------------------------------------------
(* One buildAction call on every planned action and every chain answer *)

BuildInit ==
  /\ protocol \in Adapters
  /\ config \in ConfigsOf(protocol)
  /\ executionMode = "suggest"
  /\ action \in PlannedActions(protocol)
  /\ chain \in RelevantEnv(protocol, action)
  /\ request = NoTx
  /\ signer = DefaultSigner
  /\ PipelineIdle
  /\ engine = NoEngine
  /\ discovery = NoDiscovery

buildPlanned == op = "init" /\ buildAction(action)

BuildNext == buildPlanned

BuildSpec == BuildInit /\ [][BuildNext]_vars

----------------------------------------------------------------------------
(* One sendAction call on every request, in either execution mode *)

SendInit ==
  /\ protocol \in Adapters
  /\ config \in ConfigsOf(protocol)
  /\ executionMode \in {"suggest", "auto"}
  /\ chain = DefaultEnv
  /\ request \in CallerTxs
  /\ signer \in SendEnv
  /\ action = NoAction
  /\ PipelineIdle
  /\ engine = NoEngine
  /\ discovery = NoDiscovery

sendHeld == op = "init" /\ sendAction(request, signer)

SendNext == sendHeld

SendSpec == SendInit /\ [][SendNext]_vars

----------------------------------------------------------------------------
(* TestnetConnector.sendAction *)

\* What a signer answers to TestnetConnector.sendAction: whether
\* populateTransaction succeeds, and what sendTransaction and tx.wait would
\* answer if they were called.
TestnetSigners ==
  [populateOk : BOOLEAN, sendOk : BOOLEAN,
   wait : {"confirmed", "null", "reverted"}]

TestnetConnector_sendAction_Broadcasts(txRequest, env) ==
  IF ~env.populateOk
    THEN [NoSend EXCEPT
            !.error = Err("", "populateTransaction failed", NoReason),
            !.calls = <<"signer.populateTransaction">>]
  ELSE sendTail("testnet", env, <<"signer.populateTransaction">>)

\* TestnetConnector.sendAction: populates the request and throws; the catch
\* block rethrows the error as it is.
TestnetConnector_sendAction(txRequest, env) ==
  IF ~env.populateOk
    THEN [NoSend EXCEPT
            !.error = Err("", "populateTransaction failed", NoReason),
            !.calls = <<"signer.populateTransaction">>]
  ELSE [NoSend EXCEPT
          !.error = Err("", "DEMO MODE: Cannot send real transactions",
                        NoReason),
          !.calls = <<"signer.populateTransaction">>]

TestnetInit ==
  /\ protocol = "testnet"
  /\ config = DocConfig
  /\ executionMode \in {"suggest", "auto"}
  /\ chain = DefaultEnv
  /\ request \in CallerTxs
  /\ signer \in TestnetSigners
  /\ action = NoAction
  /\ PipelineIdle
  /\ engine = NoEngine
  /\ discovery = NoDiscovery

\* testnetConnector.sendAction(request, signer)
testnetSend ==
  /\ op = "init"
  /\ op' = "sendAction"
  /\ sent' = [amountUsd |-> request.amountUsd,
              slippageBps |-> request.slippageBps,
              built |-> FALSE, usage |-> dailySpent]
  /\ send' = TestnetConnector_sendAction(request, signer)
  /\ UNCHANGED <<protocol, config, executionMode, chain, request, signer,
                 action, build, health, builtTx, dailySpent, engine, discovery, now, previous>>

TestnetNext == testnetSend

TestnetSpec == TestnetInit /\ [][TestnetNext]_vars

----------------------------------------------------------------------------
(* readOpportunities *)

\* The instruments each connector iterates over, in iteration order: the
\* trading pairs of the DEX connectors, the supported assets of Aave, the
\* qi* keys of the Benqi configuration and the vault keys of Yield Yak.
Instruments(a) ==
  CASE a \in {"traderjoe", "pangolin"} -> <<"AVAX-USDC", "AVAX-LINK", "USDC-LINK">>
    [] a = "aave" -> <<"wavax", "usdc", "link">>
    [] a = "benqi" -> <<"qiAVAX", "qiUSDC">>
    [] OTHER -> <<"avax", "usdc">>

\* What the chain answers to the reads of one instrument: "ok", "fail" (a
\* read throws), "absent" (Pangolin's factory knows no such pair) or
\* "unconfigured" (the configured address is the zero address, so the
\* constructor left the instrument out).
ReadStatuses(a) ==
  CASE a = "pangolin" -> {"ok", "fail", "absent"}
    [] a \in {"benqi", "yieldyak", "yieldyak.first"} -> {"ok", "fail", "unconfigured"}
    [] OTHER -> {"ok", "fail"}

InstrumentSet(a) == {Instruments(a)[i] : i \in 1..Len(Instruments(a))}

\* An Opportunity: its protocol tag, the instrument and side its id names,
\* and where its figures come from ("chain", or the "mock" / "fallback"
\* literals of the id suffix).
Opp(a, instrument, side, origin) ==
  [protocol |-> IF a = "yieldyak.first" THEN "yieldyak" ELSE a,
   instrument |-> instrument, side |-> side, origin |-> origin]

\* The apr literals of the Benqi mock entries (8.5 and 12.0), in tenths of
\* a percent like every apr of the model.
MockSupplyApr == 85
MockBorrowApr == 120

\* What the chain answers to the rate reads of one instrument of a lending
\* connector: the supply and the borrow rate (unsigned integers on chain),
\* annualized.
LendingRates(a) ==
  IF a \in {"benqi", "aave"}
    THEN [InstrumentSet(a) -> [supply : 0..MaxApr, borrow : 0..MaxApr]]
  ELSE {[n \in InstrumentSet(a) |-> [supply |-> 0, borrow |-> 0]]}

\* An Opportunity of a lending connector: Opp with the apr it carries.
LendingOpp(a, instrument, side, origin, apr) ==
  [protocol |-> a, instrument |-> instrument, side |-> side,
   origin |-> origin, apr |-> apr]

\* The body of the per-instrument try / catch of readOpportunities.
readInstrument(a, instrument, status, rate) ==
  CASE a = "traderjoe" ->
         IF status = "ok" THEN <<Opp(a, instrument, "swap", "chain")>> ELSE <<>>
    [] a = "pangolin" ->
         IF status = "ok" THEN <<Opp(a, instrument, "lp", "chain")>> ELSE <<>>
    [] a = "aave" ->
         IF status = "ok"
           THEN <<LendingOpp(a, instrument, "supply", "chain", rate.supply),
                  LendingOpp(a, instrument, "borrow", "chain", -rate.borrow)>>
         ELSE <<>>
    [] a = "benqi" ->
         IF status = "ok"
           THEN <<LendingOpp(a, instrument, "supply", "chain", rate.supply),
                  LendingOpp(a, instrument, "borrow", "chain", rate.borrow)>>
         ELSE IF status = "fail"
           THEN <<LendingOpp(a, instrument, "supply", "mock", MockSupplyApr),
                  LendingOpp(a, instrument, "borrow", "mock", MockBorrowApr)>>
         ELSE <<>>
    [] a = "yieldyak" ->
         IF status = "ok" THEN <<Opp(a, instrument, "vault", "chain")>>
         ELSE IF status = "fail" THEN <<Opp(a, instrument, "vault", "mock")>>
         ELSE <<>>
    [] OTHER ->
         IF status = "ok" THEN <<Opp(a, instrument, "vault", "chain")>> ELSE <<>>

RECURSIVE readLoop(_, _, _, _)
readLoop(a, reads, rates, i) ==
  IF i > Len(Instruments(a)) THEN <<>>
  ELSE readInstrument(a, Instruments(a)[i], reads[Instruments(a)[i]],
                      rates[Instruments(a)[i]])
         \o readLoop(a, reads, rates, i + 1)

\* The connectors that push a literal opportunity when the loop found none.
hasFallback(a) == a \in {"benqi", "yieldyak"}

fallbackOpportunity(a) ==
  IF a = "benqi"
    THEN LendingOpp(a, "qiAVAX", "supply", "fallback", MockSupplyApr)
  ELSE Opp(a, "avax", "vault", "fallback")

\* connector.readOpportunities(): the loop over the instruments, then the
\* fallback of the connectors that have one.
readOpportunities(a, reads, rates) ==
  LET found == readLoop(a, reads, rates, 1)
  IN [threw |-> FALSE,
      result |-> IF hasFallback(a) /\ found = <<>>
                   THEN <<fallbackOpportunity(a)>>
                 ELSE found]

ReadInit ==
  /\ protocol \in Adapters
  /\ config = DocConfig
  /\ executionMode = "suggest"
  /\ chain = DefaultEnv
  /\ request = NoTx
  /\ signer = DefaultSigner
  /\ action = NoAction
  /\ PipelineIdle
  /\ engine = NoEngine
  /\ \E reads \in [InstrumentSet(protocol) -> ReadStatuses(protocol)] :
       \E rates \in LendingRates(protocol) :
         discovery = [reads |-> reads, rates |-> rates, done |-> FALSE,
                      threw |-> FALSE, result |-> <<>>]

\* connector.readOpportunities()
callReadOpportunities ==
  /\ ~discovery.done
  /\ LET out == readOpportunities(protocol, discovery.reads, discovery.rates)
     IN discovery' = [discovery EXCEPT !.done = TRUE, !.threw = out.threw,
                                       !.result = out.result]
  /\ UNCHANGED <<protocol, config, executionMode, chain, request, signer, op,
                 action, build, health, builtTx, sent, send, dailySpent,
                 engine, now, previous>>

ReadNext == callReadOpportunities

ReadSpec == ReadInit /\ [][ReadNext]_vars

----------------------------------------------------------------------------
(* TestnetConnector.readOpportunities / readPosition *)

\* The connectors TestnetConnector queries, in program order.
Aggregated == <<"aave", "pangolin", "traderjoe">>

AggregatedSet == {Aggregated[i] : i \in 1..Len(Aggregated)}

\* The entries connector a returns to a read: n entries tagged with a.
Items(a, n) == [i \in 1..n |-> [protocol |-> a, n |-> i]]

\* What a connector answers to the aggregator: it throws, or returns entries.
AdapterOutcomes(a) ==
  {[threw |-> TRUE, items |-> <<>>]}
    \cup {[threw |-> FALSE, items |-> Items(a, n)] : n \in 0..MaxItems}

\* The position TestnetConnector.readPosition adds for a positive balance.
NativePosition == [protocol |-> "native", n |-> 0]

\* What the chain and the connectors answer to one aggregated read: whether
\* the provider's own reads succeed, whether the wallet is a valid address
\* with a positive native balance (readPosition only), and each connector's
\* outcome.
AggregateEnv ==
  [call : {"readOpportunities"}, readerOk : BOOLEAN, walletValid : {TRUE},
   balancePositive : {FALSE},
   adapters : {f \in [AggregatedSet -> UNION {AdapterOutcomes(a) : a \in AggregatedSet}] :
                 \A a \in AggregatedSet : f[a] \in AdapterOutcomes(a)}]
    \cup
  [call : {"readPosition"}, readerOk : BOOLEAN, walletValid : BOOLEAN,
   balancePositive : BOOLEAN,
   adapters : {f \in [AggregatedSet -> UNION {AdapterOutcomes(a) : a \in AggregatedSet}] :
                 \A a \in AggregatedSet : f[a] \in AdapterOutcomes(a)}]

collect_StopAtFirstThrow(outcomes, i) ==
  IF \E a \in AggregatedSet : outcomes[a].threw THEN <<>>
  ELSE outcomes["aave"].items \o outcomes["pangolin"].items
         \o outcomes["traderjoe"].items

\* The try / catch blocks around the three connector calls: a connector
\* that throws adds nothing.
RECURSIVE collect(_, _)
collect(outcomes, i) ==
  IF i > Len(Aggregated) THEN <<>>
  ELSE (IF outcomes[Aggregated[i]].threw THEN <<>>
        ELSE outcomes[Aggregated[i]].items)
         \o collect(outcomes, i + 1)

\* TestnetConnector.readOpportunities: getBlock and getFeeData, then the
\* three connectors; the outer catch rethrows.
TestnetConnector_readOpportunities(env) ==
  IF ~env.readerOk THEN [threw |-> TRUE, result |-> <<>>]
  ELSE [threw |-> FALSE, result |-> collect(env.adapters, 1)]

\* TestnetConnector.readPosition: address validation, getBalance and
\* getTransactionCount, the native position, then the three connectors.
TestnetConnector_readPosition(env) ==
  IF ~env.walletValid THEN [threw |-> TRUE, result |-> <<>>]
  ELSE IF ~env.readerOk THEN [threw |-> TRUE, result |-> <<>>]
  ELSE [threw |-> FALSE,
        result |-> (IF env.balancePositive THEN <<NativePosition>> ELSE <<>>)
                     \o collect(env.adapters, 1)]

AggregateInit ==
  /\ protocol = "testnet"
  /\ config = DocConfig
  /\ executionMode = "suggest"
  /\ chain = DefaultEnv
  /\ request = NoTx
  /\ signer = DefaultSigner
  /\ action = NoAction
  /\ PipelineIdle
  /\ engine = NoEngine
  /\ \E env \in AggregateEnv :
       discovery = [NoDiscovery EXCEPT !.reads = env]

\* testnetConnector.readOpportunities() or readPosition(wallet)
callAggregatedRead ==
  /\ ~discovery.done
  /\ LET out == IF discovery.reads.call = "readOpportunities"
                  THEN TestnetConnector_readOpportunities(discovery.reads)
                ELSE TestnetConnector_readPosition(discovery.reads)
     IN discovery' = [discovery EXCEPT !.done = TRUE, !.threw = out.threw,
                                       !.result = out.result]
  /\ UNCHANGED <<protocol, config, executionMode, chain, request, signer, op,
                 action, build, health, builtTx, sent, send, dailySpent,
                 engine, now, previous>>

AggregateNext == callAggregatedRead

AggregateSpec == AggregateInit /\ [][AggregateNext]_vars

----------------------------------------------------------------------------
(* scripts/monitor.ts and scripts/simulate.ts: fan-out and best-by-rate *)

\* The connectors each script passes to Promise.all, in argument order.
FanOut(script) ==
  IF script = "monitor" THEN <<"traderjoe", "benqi", "yieldyak">>
  ELSE <<"traderjoe", "aave", "pangolin">>

FanOutSet(script) == {FanOut(script)[i] : i \in 1..Len(FanOut(script))}

Aprs == -1..MaxApr

\* The rate sequences connector a can resolve to; the connectors with a
\* fallback never resolve to an empty array.
RateLists(a) ==
  UNION {[1..n -> Aprs] : n \in (IF hasFallback(a) THEN 1 ELSE 0)..MaxItems}

RECURSIVE reduceBest(_, _)
\* opps.reduce((best, opp) => opp.apr > best.apr ? opp : best) from element
\* i on, with accumulator best.
reduceBest(opps, best) ==
  IF opps = <<>> THEN best
  ELSE reduceBest(Tail(opps), IF Head(opps) > best THEN Head(opps) ELSE best)

\* Array.prototype.reduce without an initial value: a TypeError on an empty
\* array, else the fold from the first element.
reduce(opps) ==
  IF opps = <<>> THEN [threw |-> TRUE, best |-> 0]
  ELSE [threw |-> FALSE, best |-> reduceBest(Tail(opps), Head(opps))]

RECURSIVE flat(_, _, _)
\* allOpportunities.flat()
flat(results, order, i) ==
  IF i > Len(order) THEN <<>>
  ELSE results[order[i]] \o flat(results, order, i + 1)

\* The reductions of a script over the array Promise.all resolved to:
\* monitor.ts reduces the flattened array, simulate.ts each connector's
\* array.  considered lists the rate sequences the reductions ran over.
bestByRate(script, results) ==
  IF script = "monitor"
    THEN LET all == flat(results, FanOut(script), 1)
         IN [threw |-> reduce(all).threw,
             best |-> <<reduce(all).best>>,
             considered |-> <<all>>]
  ELSE LET order == FanOut(script)
       IN [threw |-> \E i \in 1..Len(order) : reduce(results[order[i]]).threw,
           best |-> [i \in 1..Len(order) |-> reduce(results[order[i]]).best],
           considered |-> [i \in 1..Len(order) |-> results[order[i]]]]

FanOutInit ==
  /\ protocol = "script"
  /\ config = DocConfig
  /\ executionMode = "suggest"
  /\ chain = DefaultEnv
  /\ request = NoTx
  /\ signer = DefaultSigner
  /\ action = NoAction
  /\ PipelineIdle
  /\ engine = NoEngine
  /\ \E script \in {"monitor", "simulate"} :
       \E results \in {f \in [FanOutSet(script) ->
                                 UNION {RateLists(a) : a \in FanOutSet(script)}] :
                          \A a \in FanOutSet(script) : f[a] \in RateLists(a)} :
         discovery = [reads |-> [script |-> script, results |-> results],
                      settled |-> {}, done |-> FALSE, threw |-> FALSE,
                      result |-> <<>>, considered |-> <<>>]

\* One readOpportunities promise of the fan-out settles; the promises
\* settle in any order.
settle ==
  /\ ~discovery.done
  /\ \E a \in FanOutSet(discovery.reads.script) \ discovery.settled :
       discovery' = [discovery EXCEPT !.settled = @ \cup {a}]
  /\ UNCHANGED <<protocol, config, executionMode, chain, request, signer, op,
                 action, build, health, builtTx, sent, send, dailySpent,
                 engine, now, previous>>

\* Promise.all has resolved to the results in argument order; the script
\* runs its reductions.
reduceAll ==
  /\ ~discovery.done
  /\ discovery.settled = FanOutSet(discovery.reads.script)
  /\ LET out == bestByRate(discovery.reads.script, discovery.reads.results)
     IN discovery' = [discovery EXCEPT !.done = TRUE, !.threw = out.threw,
                                       !.result = out.best,
                                       !.considered = out.considered]
  /\ UNCHANGED <<protocol, config, executionMode, chain, request, signer, op,
                 action, build, health, builtTx, sent, send, dailySpent,
                 engine, now, previous>>

FanOutNext == settle \/ reduceAll

FanOutSpec == FanOutInit /\ [][FanOutNext]_vars

----------------------------------------------------------------------------
(* Direct evaluations of the safety engine *)

TestAmountUsd == 200
TestSlippageBps == 50

\* The engine's inputs: the small ranges, and the limits of the deployment
\* guide with values at, below and above them.
EngineConfigs == ConfigsOf("benqi") \cup {DocConfig}

EngineActions ==
  [type : {"swap"}, amount : {DefaultAmount},
   amountUsd : 0..MaxAmountUsd \cup
     {TestAmountUsd, DocMaxNotionalPerTx, DocMaxNotionalPerTx + 1,
      10 * DocMaxNotionalPerTx},
   slippageBps : 0..MaxSlippage \cup
     {TestSlippageBps, DocMaxSlippageBps, DocMaxSlippageBps + 1},
   tokenKnown : {TRUE}]

EngineUsages ==
  0..MaxUsage \cup {DocDailyCap - TestAmountUsd, DocDailyCap - TestAmountUsd + 1}

SafetyInit ==
  /\ protocol = "traderjoe"
  /\ config = DocConfig
  /\ executionMode = "suggest"
  /\ chain = DefaultEnv
  /\ request = NoTx
  /\ signer = DefaultSigner
  /\ action = NoAction
  /\ PipelineIdle
  /\ engine \in [evaluated : {FALSE}, action : EngineActions,
                 config : EngineConfigs, dailyUsage : EngineUsages,
                 check : {NoCheck}]
  /\ discovery = NoDiscovery

\* performSafetyChecks(action, config, dailyUsage, {})
evaluate ==
  /\ ~engine.evaluated
  /\ engine' = [engine EXCEPT
                  !.evaluated = TRUE,
                  !.check = performSafetyChecks(engine.action, engine.config,
                                                engine.dailyUsage)]
  /\ UNCHANGED <<protocol, config, executionMode, chain, request, signer, op,
                 action, build, health, builtTx, sent, send, dailySpent,
                 discovery, now, previous>>

SafetyNext == evaluate

SafetySpec == SafetyInit /\ [][SafetyNext]_vars

----------------------------------------------------------------------------
(* buildAction called twice on the same action, the clock running *)

\* The actions built twice: every kind the connector supports, every token
\* amount, slippages at, below and above the limit of the deployment guide.
RebuildActions(a) ==
  {act \in [type : SupportedTypes(a), amount : TokenAmounts,
            amountUsd : {TestAmountUsd},
            slippageBps : {0, 1, TestSlippageBps, DocMaxSlippageBps,
                           DocMaxSlippageBps + 1},
            tokenKnown : BOOLEAN] :
     a \notin {"benqi", "yieldyak"} => act.tokenKnown}

\* The chain of the two calls: no lending position, every read succeeds
\* but possibly the vault price read; the dry run and the gas estimation
\* succeed or fail.
RebuildEnvs ==
  {[DefaultEnv EXCEPT !.priceOk = p, !.dryOk = d, !.gas = g] :
     p \in BOOLEAN, d \in BOOLEAN, g \in {0, 1}}

RebuildInit ==
  /\ protocol \in Adapters
  /\ config = DocConfig
  /\ executionMode = "suggest"
  /\ action \in RebuildActions(protocol)
  /\ chain \in RebuildEnvs
  /\ request = NoTx
  /\ signer = DefaultSigner
  /\ PipelineIdle
  /\ engine = NoEngine
  /\ discovery = NoDiscovery

\* The caller keeps the outcome of the first call.
keepBuild ==
  /\ op = "buildAction"
  /\ previous = NoBuild
  /\ previous' = build
  /\ op' = "kept"
  /\ UNCHANGED <<protocol, config, executionMode, chain, request, signer,
                 action, build, health, builtTx, sent, send, dailySpent,
                 engine, discovery, now>>

\* Wall-clock time passes; the chain state does not change.
tick ==
  /\ now < MaxClockMs
  /\ now' = now + ClockStepMs
  /\ UNCHANGED <<protocol, config, executionMode, chain, request, signer, op,
                 action, build, health, builtTx, sent, send, dailySpent,
                 engine, discovery, previous>>

\* The second call, with the same action and wallet.
rebuild == op = "kept" /\ buildAction(action)

RebuildNext == buildPlanned \/ keepBuild \/ tick \/ rebuild

RebuildSpec == RebuildInit /\ [][RebuildNext]_vars

----------------------------------------------------------------------------
(* Properties *)

Called(calls, name) == \E i \in 1..Len(calls) : calls[i] = name

\* The last buildAction call stopped before encoding anything.
RejectedBeforeEncode ==
  /\ ~build.ok
  /\ build.tx = NoTx
  /\ build.dryRun = "none"
  /\ ~Called(build.calls, "encode")
  /\ ~Called(build.calls, "provider.call")
  /\ ~Called(build.calls, "provider.estimateGas")

\* C1: whenever action.amountUsd exceeds config.maxNotionalPerTx, the engine
\* returns passed = false and notionalCheck = false and the reason names the
\* notional violation, whatever the daily-cap and slippage sub-results are.
C1_OverNotionalRejected ==
  (engine.evaluated
     /\ engine.action.amountUsd > engine.config.maxNotionalPerTx)
  => /\ ~engine.check.passed
     /\ ~engine.check.notionalCheck
     /\ engine.check.reason =
          [text |-> "exceeds max notional per tx",
           value |-> engine.action.amountUsd,
           limit |-> engine.config.maxNotionalPerTx]

\* The scenario of the guide's limits with an amount of ten times the cap.
C1_Witness ==
  /\ engine.evaluated
  /\ engine.config = DocConfig
  /\ engine.action.amountUsd = 10 * DocMaxNotionalPerTx
  /\ engine.action.slippageBps = TestSlippageBps
  /\ engine.check.slippageCheck
  /\ ~engine.check.notionalCheck

\* C2: an action within all three limits (bounds inclusive) passes.
C2_WithinLimitsPasses ==
  (engine.evaluated
     /\ engine.action.amountUsd <= engine.config.maxNotionalPerTx
     /\ engine.action.slippageBps <= engine.config.maxSlippageBps
     /\ engine.dailyUsage + engine.action.amountUsd <= engine.config.dailyCap)
  => engine.check.passed

\* Limits 250/1000/500, amountUsd 200, slippageBps 50, dailyUsage 0.
C2_Witness ==
  /\ engine.evaluated
  /\ engine.config = DocConfig
  /\ engine.action.amountUsd = TestAmountUsd
  /\ engine.action.slippageBps = TestSlippageBps
  /\ engine.dailyUsage = 0
  /\ engine.check.passed

\* C3: the sum of amountUsd of the actions one connector built and sent
\* within a day never exceeds config.dailyCap.
C3_DailyCapNeverExceeded == dailySpent <= config.dailyCap

\* C4: in every connector, a sendAction call that reaches
\* signer.sendTransaction has evaluated the safety engine first.
C4_FinalCheckBeforeBroadcast ==
  (op = "sendAction" /\ Called(send.calls, "signer.sendTransaction"))
  => (Len(send.calls) >= 1 /\ send.calls[1] = "performSafetyChecks")

\* C5: a built action that, with the daily usage at the moment of sending,
\* violates the notional, slippage or daily-cap limit is never broadcast.
C5_SentActionWithinLimits ==
  (op = "sendAction" /\ sent.built /\ send.broadcast)
  => /\ sent.amountUsd <= config.maxNotionalPerTx
     /\ sent.slippageBps <= config.maxSlippageBps
     /\ sent.usage + sent.amountUsd <= config.dailyCap

\* C6: sendAction broadcasts only a request that came out of a completed
\* buildAction call of the same pipeline.
C6_OnlyBuiltIsBroadcast ==
  (op = "sendAction" /\ send.broadcast) => sent.built

\* C7: a borrow or repay on a lending connector is rejected before any
\* encoding, dry run or gas estimate whenever the wallet's current health
\* factor is below minHealthFactor, for every value from 0 up.
C7_LowHealthBlocks ==
  (op = "buildAction" /\ health.gated
     /\ health.current >= 0 /\ health.current < config.minHealthFactor)
  => RejectedBeforeEncode

\* C8: a borrow that would bring the wallet's ratio below minHealthFactor is
\* blocked even when the current health factor is at or above the minimum.
C8_PostBorrowRatioGated ==
  (op = "buildAction" /\ health.gated /\ action.type = "borrow"
     /\ health.ratio >= config.minHealthFactor
     /\ health.after < config.minHealthFactor)
  => RejectedBeforeEncode

\* C9: in the default execution mode no sendAction call reaches
\* signer.sendTransaction.
C9_DemoModeNeverBroadcasts ==
  (op = "sendAction" /\ executionMode = "suggest")
  => ~Called(send.calls, "signer.sendTransaction")

\* C10: when the safety engine rejects the action, buildAction of every
\* connector makes no encode, dry-run or gas-estimate call, returns no
\* transaction, and its error carries the check's reason.
C10_SafetyRejectFailsFast ==
  (op = "buildAction"
     /\ (\/ action.amountUsd > config.maxNotionalPerTx
         \/ action.amountUsd > config.dailyCap
         \/ action.slippageBps > config.maxSlippageBps))
  => /\ RejectedBeforeEncode
     /\ build.calls = <<"performSafetyChecks">>
     /\ build.error.wrapper = BuildWrapper(protocol)
     /\ build.error.cause = "Safety check failed"
     /\ build.error.reason.text \in
          {"exceeds max notional per tx", "exceeds daily cap",
           "exceeds max slippage"}
     /\ (build.error.reason.text = "exceeds max slippage"
           => /\ build.error.reason.value = action.slippageBps
              /\ build.error.reason.limit = config.maxSlippageBps)

\* A supported lending action rejected for its slippage only.
C10_Witness ==
  /\ op = "buildAction"
  /\ protocol = "aave"
  /\ action.type = "supply"
  /\ action.amountUsd <= config.maxNotionalPerTx
  /\ action.amountUsd <= config.dailyCap
  /\ action.slippageBps > config.maxSlippageBps
  /\ build.error.cause = "Safety check failed"
  /\ build.error.reason.text = "exceeds max slippage"

\* The steps of one buildAction call of connector a on action act, in
\* program order.
BuildSteps(a, act) ==
  <<"performSafetyChecks">>
    \o (IF LendingGated(a, act) THEN <<gateCall(a)>> ELSE <<>>)
    \o <<"encode", "provider.call", "provider.estimateGas">>

IsPrefix(s, t) ==
  Len(s) <= Len(t) /\ \A i \in 1..Len(s) : s[i] = t[i]

\* The action of the last buildAction call passed the safety check the
\* connector runs (daily usage 0).
PassedSafety ==
  /\ action.amountUsd <= config.maxNotionalPerTx
  /\ action.amountUsd <= config.dailyCap
  /\ action.slippageBps <= config.maxSlippageBps

\* C11: in every connector, an action of a kind outside the connector's
\* supported set that passes the safety check is rejected with "Unsupported
\* action type: <kind>"; no transaction is returned and no encode, dry-run
\* or gas-estimate call is made.
C11_UnsupportedKindRejected ==
  (op = "buildAction" /\ PassedSafety
     /\ action.type \notin SupportedTypes(protocol))
  => /\ RejectedBeforeEncode
     /\ build.error.wrapper = BuildWrapper(protocol)
     /\ build.error.cause = "Unsupported action type"
     /\ build.error.kind = action.type

\* "supply" submitted to a DEX-only connector.
C11_Witness ==
  /\ op = "buildAction"
  /\ protocol = "traderjoe"
  /\ action.type = "supply"
  /\ PassedSafety
  /\ build.error.cause = "Unsupported action type"
  /\ build.error.kind = "supply"

\* C12: the calls of one buildAction call are a prefix of safety check,
\* (health gate,) encode, dry run, gas estimate, each at most once; a
\* successful build made them all, and a failed build stopped at the failing
\* step and throws that step's message.
C12_StepsInOrder ==
  op = "buildAction"
  => /\ IsPrefix(build.calls, BuildSteps(protocol, action))
     /\ Len(build.calls) >= 1
     /\ build.ok => build.calls = BuildSteps(protocol, action)
     /\ ~build.ok =>
          LET last == build.calls[Len(build.calls)]
          IN /\ build.tx = NoTx
             /\ build.error.wrapper = BuildWrapper(protocol)
             /\ last # "provider.call"
             /\ (last = "performSafetyChecks") =>
                   build.error.cause \in
                     {"Safety check failed", "Unsupported action type"}
             /\ (last = gateCall(protocol)) =>
                   build.error.cause \in
                     {"Health factor below minimum",
                      "getUserAccountData failed"}
             /\ (last = "encode") =>
                   build.error.cause = encodeError(protocol, action, chain)
             /\ (last = "provider.estimateGas") =>
                   build.error.cause = "Gas estimation failed"
             /\ (build.error.cause = "Safety check failed") =>
                   build.calls = <<"performSafetyChecks">>

\* A Benqi borrow that passed the safety check and the health gate and
\* failed in the encode step.
C12_Witness ==
  /\ op = "buildAction"
  /\ protocol = "benqi"
  /\ action.type = "borrow"
  /\ build.calls = <<"performSafetyChecks", "calculateHealthFactor", "encode">>
  /\ build.error.cause = "No qToken found for token"

\* C13: when provider.call reverts and the gas estimation succeeds,
\* buildAction returns the built transaction together with a failed
\* dryRunResult.
C13_DryRunRevertKeepsBuild ==
  (op = "buildAction" /\ Called(build.calls, "provider.call")
     /\ ~chain.dryOk /\ chain.gas > 0)
  => /\ build.ok
     /\ build.tx # NoTx
     /\ build.tx.to # ""
     /\ build.dryRun = "reverted"

C13_Witness ==
  /\ op = "buildAction"
  /\ protocol = "pangolin"
  /\ action.type = "swap"
  /\ ~chain.dryOk
  /\ build.ok
  /\ build.dryRun = "reverted"
  /\ build.tx.gasLimit = chain.gas

\* C14: when the gas estimation fails, buildAction fails with "Gas
\* estimation failed" and returns neither a transaction nor a dryRunResult,
\* whatever the dry run gave; when it succeeds, the returned transaction's
\* gasLimit is the estimate.
C14_GasEstimateDecides ==
  (op = "buildAction" /\ Called(build.calls, "provider.estimateGas"))
  => IF chain.gas = 0
       THEN /\ ~build.ok
            /\ build.tx = NoTx
            /\ build.dryRun = "none"
            /\ build.error.wrapper = BuildWrapper(protocol)
            /\ build.error.cause = "Gas estimation failed"
     ELSE /\ build.ok
          /\ build.tx.gasLimit = chain.gas

\* The gas estimation fails after a successful dry run.
C14_Witness ==
  /\ op = "buildAction"
  /\ chain.dryOk
  /\ chain.gas = 0
  /\ Called(build.calls, "provider.call")
  /\ build.error.cause = "Gas estimation failed"

\* C15: a supported action that passes the safety check and the health gate
\* and whose target contract resolves, with a successful dry run and gas
\* estimation, builds to {tx, dryRunResult} with tx.to and tx.data set and
\* dryRunResult.success true.
C15_BuildSucceeds ==
  (op = "buildAction" /\ PassedSafety
     /\ action.type \in SupportedTypes(protocol)
     /\ healthGate(protocol, action, config, chain) \in {"skip", "pass"}
     /\ encodeTarget(protocol, action, chain) # ""
     /\ chain.dryOk /\ chain.gas > 0)
  => /\ build.ok
     /\ build.error = NoError
     /\ build.tx.to = encodeTarget(protocol, action, chain)
     /\ build.tx.to # ""
     /\ build.tx.fn = action.type
     /\ build.dryRun = "success"

\* A Benqi borrow with the wallet's health factor at or above the minimum.
C15_Witness ==
  /\ op = "buildAction"
  /\ protocol = "benqi"
  /\ action.type = "borrow"
  /\ health.current >= config.minHealthFactor
  /\ build.ok
  /\ build.tx.to = "benqi.qToken"
  /\ build.dryRun = "success"

\* C19: TestnetConnector.sendAction fails for every request and signer, with
\* "DEMO MODE: Cannot send real transactions" once the request has been
\* populated; it never calls signer.sendTransaction and returns no receipt.
C19_TestnetNeverBroadcasts ==
  (op = "sendAction" /\ protocol = "testnet")
  => /\ ~send.ok
     /\ ~send.broadcast
     /\ send.receipt = "none"
     /\ ~Called(send.calls, "signer.sendTransaction")
     /\ signer.populateOk =>
          send.error.cause = "DEMO MODE: Cannot send real transactions"

\* A signer that would accept and confirm the transaction is never asked to.
C19_Witness ==
  /\ op = "sendAction"
  /\ protocol = "testnet"
  /\ executionMode = "auto"
  /\ signer.populateOk /\ signer.sendOk /\ signer.wait = "confirmed"
  /\ send.calls = <<"signer.populateTransaction">>
  /\ send.error.cause = "DEMO MODE: Cannot send real transactions"

\* How often a call occurs in a handler's call log.
RECURSIVE Count(_, _)
Count(calls, name) ==
  IF calls = <<>> THEN 0
  ELSE (IF Head(calls) = name THEN 1 ELSE 0) + Count(Tail(calls), name)

\* C16: every successful sendAction return carries the receipt tx.wait
\* obtained, and a wait that yields no receipt makes the call fail with
\* "Transaction failed - no receipt received", in every connector.
C16_SuccessHasReceipt ==
  op = "sendAction"
  => /\ send.ok => (send.receipt = "confirmed"
                     /\ Called(send.calls, "tx.wait"))
     /\ (Called(send.calls, "tx.wait") /\ signer.wait = "null")
          => (~send.ok
              /\ send.error.cause = "Transaction failed - no receipt received")

C18_OnlySendBroadcastsOnce ==
  /\ op = "buildAction"
       => /\ Count(build.calls, "signer.sendTransaction") = 0
          /\ send = NoSend
  /\ op = "sendAction"
       => /\ Count(send.calls, "signer.sendTransaction") <= 1
          /\ Count(send.calls, "tx.wait") <= 1
          /\ send.broadcast
               => Count(send.calls, "signer.sendTransaction") = 1

\* A built transaction whose send the signer refuses is tried once.
C18_Witness ==
  /\ op = "sendAction"
  /\ sent.built
  /\ ~send.ok
  /\ send.error.cause = "sendTransaction failed"
  /\ Count(send.calls, "signer.sendTransaction") = 1
  /\ ~Called(send.calls, "tx.wait")

\* The opportunities a connector may return for the given chain answers:
\* read from the chain, of an instrument whose reads succeeded.
FromSuccessfulRead(o, reads) ==
  /\ o.origin = "chain"
  /\ o.instrument \in DOMAIN reads
  /\ reads[o.instrument] = "ok"

\* C20: readOpportunities of every connector does not throw on partial read
\* failures and returns exactly the opportunities of the instruments whose
\* reads succeeded: a failed instrument has no entry, and no entry is a
\* placeholder or fabricated.
C20_OnlySuccessfulReadsReturned ==
  discovery.done
  => /\ ~discovery.threw
     /\ \A i \in 1..Len(discovery.result) :
          FromSuccessfulRead(discovery.result[i], discovery.reads)
     /\ \A n \in DOMAIN discovery.reads :
          discovery.reads[n] = "ok"
            => \E i \in 1..Len(discovery.result) :
                 discovery.result[i].instrument = n

\* The protocol tag the opportunities of connector a carry.
ProtocolTag(a) == IF a = "yieldyak.first" THEN "yieldyak" ELSE a

\* C21: readOpportunities of the Trader Joe, Benqi and Yield Yak connectors
\* never rejects and returns a non-empty array whatever the chain reads
\* answer, and every returned opportunity carries the connector's own
\* protocol tag.
C21_AlwaysNonEmpty ==
  (discovery.done
     /\ protocol \in {"traderjoe", "benqi", "yieldyak", "yieldyak.first"})
  => /\ ~discovery.threw
     /\ Len(discovery.result) > 0
     /\ \A i \in 1..Len(discovery.result) :
          discovery.result[i].protocol = ProtocolTag(protocol)

\* The concatenation, in program order, of what the connectors that did not
\* throw returned.
SucceededResults(env) ==
  (IF env.adapters["aave"].threw THEN <<>> ELSE env.adapters["aave"].items)
    \o (IF env.adapters["pangolin"].threw THEN <<>>
        ELSE env.adapters["pangolin"].items)
    \o (IF env.adapters["traderjoe"].threw THEN <<>>
        ELSE env.adapters["traderjoe"].items)

\* The aggregated read ran with the provider reachable and the wallet valid.
AggregateRan ==
  /\ protocol = "testnet"
  /\ discovery.done
  /\ discovery.reads.readerOk
  /\ discovery.reads.walletValid

\* C22 as stated: with the provider reachable and the wallet valid, both
\* aggregated reads succeed whatever connectors throw and return exactly the
\* concatenation of the results of the connectors that succeeded.
C22_ExactConcatenation ==
  AggregateRan
  => /\ ~discovery.threw
     /\ discovery.result = SucceededResults(discovery.reads)

\* C22 amended: as above for readOpportunities; readPosition returns the
\* wallet's native AVAX position first when its balance is positive,
\* followed by exactly that concatenation.
C22_ConcatenationAfterNative ==
  AggregateRan
  => /\ ~discovery.threw
     /\ discovery.result =
          (IF discovery.reads.call = "readPosition"
                /\ discovery.reads.balancePositive
             THEN <<NativePosition>> ELSE <<>>)
            \o SucceededResults(discovery.reads)

\* Pangolin throws between two connectors that return entries.
C22_Witness ==
  /\ AggregateRan
  /\ discovery.reads.call = "readOpportunities"
  /\ ~discovery.reads.adapters["aave"].threw
  /\ discovery.reads.adapters["pangolin"].threw
  /\ ~discovery.reads.adapters["traderjoe"].threw
  /\ Len(discovery.reads.adapters["aave"].items) = 2
  /\ Len(discovery.reads.adapters["traderjoe"].items) = 1
  /\ Len(discovery.result) = 3
  /\ discovery.result[3].protocol = "traderjoe"

\* C23: for every outcome of the fan-out, empty sequences included, the
\* best-by-rate reduction completes without error and returns a rate that
\* is greater than or equal to every rate it considered.
C23_BestByRateTotal ==
  (protocol = "script" /\ discovery.done)
  => /\ ~discovery.threw
     /\ \A i \in 1..Len(discovery.result) :
          \A j \in 1..Len(discovery.considered[i]) :
            discovery.result[i] >= discovery.considered[i][j]

----------------------------------------------------------------------------
(* Idempotence of buildAction *)

\* What the data of a built request encodes.
txData(tx) == <<tx.fn, tx.amount, tx.minAmount, tx.deadline>>

BuiltTwice == op = "buildAction" /\ previous # NoBuild

\* C24: two buildAction calls with the same action and wallet on an
\* unchanged chain yield requests with the same target, the same data and
\* the same dry-run verdict, whatever wall-clock time passes between them.
C24_RebuildIsIdentical ==
  (BuiltTwice /\ previous.ok /\ build.ok) =>
    /\ build.tx.to = previous.tx.to
    /\ txData(build.tx) = txData(previous.tx)
    /\ build.dryRun = previous.dryRun

----------------------------------------------------------------------------
(* Slippage protection *)

\* C29: the minimum amount encoded in a built swap, lp_add or lp_remove
\* request whose slippage is within 0..maxSlippageBps is the floor of
\* amount * (10000 - slippageBps) / 10000, lies in 0..amount, and is the
\* amount itself when the slippage is 0.
C29_MinimumAmountIsFloor ==
  (/\ op = "buildAction" /\ build.ok
   /\ build.tx.fn \in {"swap", "lp_add", "lp_remove"}
   /\ action.slippageBps \in 0..config.maxSlippageBps) =>
    LET m == build.tx.minAmount
        exact == action.amount * (10000 - action.slippageBps)
    IN /\ m * 10000 <= exact
       /\ exact < (m + 1) * 10000
       /\ 0 <= m /\ m <= action.amount
       /\ (action.slippageBps = 0 => m = action.amount)

C29_Witness ==
  /\ op = "buildAction" /\ build.ok
  /\ protocol = "pangolin" /\ build.tx.fn = "lp_remove"
  /\ action.slippageBps = TestSlippageBps /\ action.amount = 9999
  /\ build.tx.minAmount = 9949

----------------------------------------------------------------------------
(* The safety engine's result *)

\* C25: each of the three sub-results is the value of its own predicate
\* whatever the other two are, and the reason names the first violated
\* constraint in the order notional, daily cap, slippage.
C25_IndependentChecksFirstReason ==
  engine.evaluated =>
    LET a == engine.action
        c == engine.config
        r == engine.check
        notional == a.amountUsd <= c.maxNotionalPerTx
        daily == engine.dailyUsage + a.amountUsd <= c.dailyCap
        slippage == a.slippageBps <= c.maxSlippageBps
    IN /\ r.notionalCheck = notional
       /\ r.dailyCapCheck = daily
       /\ r.slippageCheck = slippage
       /\ ~notional => r.reason.text = "exceeds max notional per tx"
       /\ (notional /\ ~daily) => r.reason.text = "exceeds daily cap"
       /\ (notional /\ daily /\ ~slippage) =>
            r.reason.text = "exceeds max slippage"

\* The notional and the slippage limits are violated while the daily cap
\* is respected; the three sub-results say so and the reason names the
\* notional limit.
C25_Witness ==
  /\ engine.evaluated
  /\ engine.action.amountUsd > engine.config.maxNotionalPerTx
  /\ engine.dailyUsage + engine.action.amountUsd <= engine.config.dailyCap
  /\ engine.action.slippageBps > engine.config.maxSlippageBps
  /\ ~engine.check.notionalCheck
  /\ engine.check.dailyCapCheck /\ ~engine.check.slippageCheck
  /\ engine.check.reason.text = "exceeds max notional per tx"

\* C28: passed is the conjunction of the three sub-results, a value equal
\* to its limit passes its check, and the reason is non-empty exactly when
\* passed is false.
C28_PassedIffAllChecks ==
  engine.evaluated =>
    LET a == engine.action
        c == engine.config
        r == engine.check
    IN /\ r.passed = (r.notionalCheck /\ r.dailyCapCheck /\ r.slippageCheck)
       /\ a.amountUsd = c.maxNotionalPerTx => r.notionalCheck
       /\ engine.dailyUsage + a.amountUsd = c.dailyCap => r.dailyCapCheck
       /\ a.slippageBps = c.maxSlippageBps => r.slippageCheck
       /\ (r.reason.text # "") = ~r.passed

\* Every value sits exactly on its limit and the action passes.
C28_Witness ==
  /\ engine.evaluated
  /\ engine.action.amountUsd = engine.config.maxNotionalPerTx
  /\ engine.dailyUsage + engine.action.amountUsd = engine.config.dailyCap
  /\ engine.action.slippageBps = engine.config.maxSlippageBps
  /\ engine.action.amountUsd > 0 /\ engine.action.slippageBps > 0
  /\ engine.check.passed /\ engine.check.reason = NoReason

----------------------------------------------------------------------------
(* Vault resolution *)

\* C26: a Yield Yak deposit / withdraw_vault request is only built against
\* the vault of the action's token; when no vault matches the token,
\* buildAction fails with 'No vault found for token' and builds nothing.
C26_VaultMatchesToken ==
  (/\ op = "buildAction"
   /\ protocol \in {"yieldyak", "yieldyak.first"}
   /\ action.type \in {"deposit", "withdraw_vault"}) =>
    /\ build.ok => (action.tokenKnown /\ build.tx.to = "yieldyak.vault")
    /\ (PassedSafety /\ ~action.tokenKnown) =>
         /\ ~build.ok
         /\ build.error.cause = "No vault found for token"
         /\ build.tx = NoTx

----------------------------------------------------------------------------
(* Health gate on unreadable balances *)

\* C27: when the balance reads of some or all Benqi markets fail, a borrow
\* or repay action is rejected by buildAction.
C27_UnreadableBalancesBlock ==
  (/\ op = "buildAction"
   /\ protocol = "benqi"
   /\ action.type \in {"borrow", "repay"}
   /\ chain.readOk # Markets) =>
    ~build.ok

----------------------------------------------------------------------------
(* Sign of the borrow rate *)

\* C30: every borrow opportunity a lending connector's readOpportunities
\* returns carries a non-positive apr.
C30_BorrowRateNonPositive ==
  (discovery.done /\ protocol \in {"benqi", "aave"}) =>
    \A i \in DOMAIN discovery.result :
      discovery.result[i].side = "borrow" => discovery.result[i].apr <= 0

====
